---- MODULE Spec2Model ----
(***************************************************************************)
(* Model of mill/setup.py: the FactoryEnv life cycle (kickstart, refresh,  *)
(* registration), the staleness check, the species table and the callers   *)
(* setup, init and nuke.                                                   *)
(*                                                                         *)
(* Python dictionaries are modelled as sequences of <<key, value>> pairs   *)
(* in insertion order, which is the order in which CPython 3.7+ iterates   *)
(* them.  The nested 'loader_commands' dictionaries are objects shared by  *)
(* reference; they live in loader_objs and the species entries hold their  *)
(* identities.                                                             *)
(*                                                                         *)
(* Times are whole seconds counted from local midnight of one day, so the  *)
(* %Y%m%d part of a stamp is the same for every time of the model and is   *)
(* left out; the %H%M part and the %s (epoch seconds) suffix are kept.     *)
(* Modification times are taken in whole seconds, as time.localtime does.  *)
(***************************************************************************)
EXTENDS Integers, Sequences, FiniteSets, TLC

\* ------------------------------------------------------------------ bounds
\* number of one-second clock ticks the model follows
MaxTicks == 2
\* number of edits of requirements files the model follows
MaxEdits == 1
\* number of interpreter processes working on the directory
NumProcs == 2

Procs == 1..NumProcs
\* the process whose runs the serialized specification follows
MainProc == CHOOSE p \in Procs : \A q \in Procs : p <= q

\* ------------------------------------------------------- clock and calendar
SecondsPerMinute == 60
SecondsPerHour == 3600
\* width of the %s field, as a power of ten larger than every time
SuffixBase == 10000
\* value of a key that dict.get(key, None) does not find
NoStamp == -1
None == "None"

\* the zones: one without a transition, one whose daylight-saving time ends
\* (clocks go back one hour) at DstEnd
Zones == {"fixed", "dst_ends"}
DstEnd == 2 * SecondsPerHour
ClockStart == DstEnd - 2
MaxTime == ClockStart + MaxTicks
Times == 0..MaxTime

\* time.localtime(t): seconds since local midnight shown by the wall clock
localtime(z, t) ==
  IF z = "dst_ends" /\ t >= DstEnd THEN t - SecondsPerHour ELSE t

\* the %H%M digits of a local time
HourMinute(lt) ==
  (lt \div SecondsPerHour) * 100 + ((lt % SecondsPerHour) \div SecondsPerMinute)

\* int(time.strftime('%Y%m%d%H%M%s', time.localtime(t))): the minute digits
\* followed by the epoch seconds
strftime(z, t) == HourMinute(localtime(z, t)) * SuffixBase + t

\* -------------------------------------------------------------- dictionaries
DictHas(d, k) == \E i \in DOMAIN d : d[i][1] = k
DictGet(d, k) == d[CHOOSE i \in DOMAIN d : d[i][1] = k][2]
DictSet(d, k, v) ==
  IF DictHas(d, k)
  THEN [i \in DOMAIN d |-> IF d[i][1] = k THEN <<k, v>> ELSE d[i]]
  ELSE Append(d, <<k, v>>)
DictKeys(d) == [i \in DOMAIN d |-> d[i][1]]

\* ------------------------------------------------------------ species table
ReqVirtualenv == "mill/requirements_virtualenv.txt"
ReqConda == "mill/requirements_anaconda_conda.txt"
ReqPip == "mill/requirements_anaconda_pip.txt"
ReqFiles == {ReqVirtualenv, ReqConda, ReqPip}

\* identities of the two 'loader_commands' dictionary objects
LoaderRefs == {"loader_commands@virtualenv", "loader_commands@anaconda"}

\* the dictionary literal of the class body
meta_literal ==
  << <<"virtualenv",
       << <<"reqs", <<ReqVirtualenv>> >>,
          <<"setup_kickstart", "setup_virtualenv">>,
          <<"setup_refresh", "setup_virtualenv_refresh">>,
          <<"loader_commands", "loader_commands@virtualenv">>,
          <<"welcome", "welcome_message">>,
          <<"source_cmd", "source env/bin/activate">> >> >>,
     <<"anaconda",
       << <<"reqs_conda", <<ReqConda>> >>,
          <<"reqs_pip", <<ReqPip>> >>,
          <<"setup_kickstart", "setup_anaconda">>,
          <<"setup_refresh", "setup_anaconda_refresh">>,
          <<"loader_commands", "loader_commands@anaconda">>,
          <<"welcome", "welcome_message">>,
          <<"source_cmd", "source env/bin/activate">>,
          <<"use_python2", TRUE>> >> >> >>

\* the loader_commands objects as the class body creates them
loader_literal ==
  [r \in LoaderRefs |->
     [env_activate |-> "env/bin/activate", env_deactivate |-> "deactivate"]]

\* the derivation without the copy: both names denote one dictionary, so the
\* override lands in the base species too (a defect used to test claims)
derive_sandbox_aliased(m) ==
  LET shared == DictSet(DictGet(m, "virtualenv"),
                        "setup_kickstart", "setup_virtualenv_sandbox")
  IN  DictSet(DictSet(m, "virtualenv", shared), "virtualenv_sandbox", shared)

\* meta['virtualenv_sandbox'] = dict(meta['virtualenv']) and the override of
\* its 'setup_kickstart': a shallow copy, so nested objects stay shared
derive_sandbox(m) ==
  LET copy == DictGet(m, "virtualenv")
  IN  DictSet(m, "virtualenv_sandbox",
              DictSet(copy, "setup_kickstart", "setup_virtualenv_sandbox"))

\* FactoryEnv.meta once the class body has run
class_meta == derive_sandbox(meta_literal)

required_folders == <<"logs", "connections">>
Range(s) == {s[i] : i \in DOMAIN s}

\* the loop stopping after its first folder (a defect used to test claims)
scaffold_first_only(ds) == ds \cup {required_folders[1]}

\* lines 56-57: every required folder that is missing is created
scaffold(ds) == ds \cup Range(required_folders)

\* the methods of FactoryEnv that hooks can name
Methods == {"setup_virtualenv", "setup_virtualenv_sandbox", "setup_anaconda",
            "setup_virtualenv_refresh", "setup_anaconda_refresh",
            "welcome_message", "check_spotchange", "register_finished"}

\* --------------------------------------------------------------- the store
\* the configuration file as a key/value map; None or NoStamp: key absent.
\* nuke_config is what nuke writes ('commands' stands for its two keys
\* 'commands' and 'commands_aliases', which nothing else here touches)
nuke_config ==
  [species |-> None, setup_stamp |-> NoStamp, activate_env |-> None,
   anaconda_location |-> None, commands |-> "mill/setup.py"]

\* what the user can name in `make set species <name>`; "docker" is not in
\* the table
SpeciesChoices == {"virtualenv", "virtualenv_sandbox", "anaconda", "docker"}
InstallerPath == "~/libs/Anaconda3-4.2.0-Linux-x86_64.sh"

\* config.read_config and config.write_config
read_config(st) == st
write_config(cfg) == cfg

\* config.bash: returns when the command exits with status zero and raises
\* otherwise; the value says whether it returned
bash(exit_zero) == exit_zero

VARIABLES
  store,        \* the persisted configuration
  mtime,        \* modification time of each requirements file
  now,          \* the clock, time.time() in whole seconds
  tz,           \* the zone of the machine
  dirs,         \* directories that exist in the working directory
  edits,        \* number of edits of requirements files so far
  quiet,        \* no file or configuration change since the last registration
  after_nuke,   \* "nuked": nuke was the last change of the configuration;
                \* "configured": a species was set after it and nothing has
                \* registered since; "no" otherwise
  kicked,       \* species whose kickstart has succeeded since the last nuke
  lost,         \* a registration has overwritten a configuration that had
                \* changed since the registering run read it
  meta,         \* per process: FactoryEnv.meta
  loader_objs,  \* per process: the loader_commands objects
  pc,           \* per process: position of the current run
  entry,        \* per process: the operation the caller invoked
  arg,          \* per process: the refresh argument the caller gave
  refresh,      \* per process: the refresh parameter of __init__
  config,       \* per process: self.config
  timestamp,    \* per process: self.timestamp
  kind,         \* per process: self.kind
  attrs,        \* per process: the species fields copied onto the instance
  do_refresh,   \* per process: the local do_refresh
  spot0,        \* per process: what check_spotchange returned, if called
  raised,       \* per process: the hook whose exception ended the run
  calls,        \* per process: methods invoked by the current run, in order
  read0,        \* per process: the configuration as the run read it
  quiet0,       \* per process: quiet when the run started
  fresh0,       \* per process: the run started in a new interpreter
  prev_raised   \* per process: raised of the previous run of the interpreter

histvars == <<after_nuke, kicked, lost>>
envvars == <<store, mtime, now, tz, dirs, edits, quiet, after_nuke, kicked,
             lost>>
procvars == <<meta, loader_objs, pc, entry, arg, refresh, config, timestamp,
              kind, attrs, do_refresh, spot0, raised, calls, read0, quiet0,
              fresh0, prev_raised>>
vars == <<store, mtime, now, tz, dirs, edits, quiet, after_nuke, kicked,
          lost, meta, loader_objs, pc, entry, arg, refresh, config,
          timestamp, kind, attrs, do_refresh, spot0, raised, calls, read0,
          quiet0, fresh0, prev_raised>>

Resting == {"idle", "done", "failed", "exited"}
NoRunActive == \A q \in Procs : pc[q] \in Resting

Init ==
  /\ store = nuke_config
  /\ mtime = [f \in ReqFiles |-> ClockStart]
  /\ now = ClockStart
  /\ tz \in Zones
  /\ dirs = {}
  /\ edits = 0
  /\ quiet = FALSE
  /\ after_nuke = "no"
  /\ kicked = {}
  /\ lost = FALSE
  /\ meta = [p \in Procs |-> class_meta]
  /\ loader_objs = [p \in Procs |-> loader_literal]
  /\ pc = [p \in Procs |-> "idle"]
  /\ entry = [p \in Procs |-> None]
  /\ arg = [p \in Procs |-> FALSE]
  /\ refresh = [p \in Procs |-> FALSE]
  /\ config = [p \in Procs |-> nuke_config]
  /\ timestamp = [p \in Procs |-> NoStamp]
  /\ kind = [p \in Procs |-> None]
  /\ attrs = [p \in Procs |-> <<>>]
  /\ do_refresh = [p \in Procs |-> FALSE]
  /\ spot0 = [p \in Procs |-> FALSE]
  /\ raised = [p \in Procs |-> None]
  /\ calls = [p \in Procs |-> <<>>]
  /\ read0 = [p \in Procs |-> nuke_config]
  /\ quiet0 = [p \in Procs |-> FALSE]
  /\ fresh0 = [p \in Procs |-> TRUE]
  /\ prev_raised = [p \in Procs |-> None]

\* ------------------------------------------------------- the staleness check
\* re.match('^reqs', key) over the keys an instance can carry
StartsWithReqs(k) == k \in {"reqs", "reqs_conda", "reqs_pip"}

\* reqs_keys: the instance attributes starting with 'reqs', in dictionary
\* order ('config', 'timestamp' and 'kind' come first and do not match)
reqs_keys(d) == SelectSeq(DictKeys(d), StartsWithReqs)

\* the list comprehension of one iteration: the files of one list whose
\* stamp is greater than the stored one
fns_newer(fns, ts, mt, z) ==
  SelectSeq(fns, LAMBDA fn : strftime(z, mt[fn]) > ts)

\* the loop of check_spotchange: each iteration ASSIGNS fns_changed
RECURSIVE spot_loop(_, _, _, _, _, _, _)
spot_loop(d, keys, i, fns_changed, ts, mt, z) ==
  IF i > Len(keys) THEN fns_changed
  ELSE spot_loop(d, keys, i + 1,
                 fns_newer(DictGet(d, keys[i]), ts, mt, z), ts, mt, z)

\* check_spotchange: any(fns_changed) over the names left by the loop (file
\* names are non-empty strings, hence true)
check_spotchange(d, ts, mt, z) ==
  Len(spot_loop(d, reqs_keys(d), 1, <<>>, ts, mt, z)) > 0

\* ------------------------------------------------- decisions of __init__
\* kind not in self.meta
unknown_species(m, k) == ~DictHas(m, k)

\* the same without `or refresh` (a defect used to test claims)
do_refresh_expr_ignoring_flag(ts, spot, r) == ts # NoStamp /\ spot

\* do_refresh = (self.timestamp and self.check_spotchange()) or refresh
do_refresh_expr(ts, spot, r) == (ts # NoStamp /\ spot) \/ r

\* the kickstart test answering no even without a stamp (a defect used to
\* test claims)
runs_kickstart_never(ts) == FALSE

\* if not self.timestamp: <kickstart>
runs_kickstart(ts) == ts = NoStamp

\* the refresh test without its first-run disjunct (a defect used to test
\* claims)
runs_refresh_flag_only(ts, dr) == dr

\* if not self.timestamp or do_refresh: <refresh>
runs_refresh(ts, dr) == ts = NoStamp \/ dr

\* ---------------------------------------------------------------- callers
\* setup: env = FactoryEnv(refresh=True), whatever its argument
setup(r) == TRUE

\* init: setup(refresh=refresh)
init(r) == setup(r)

Entries == {"FactoryEnv", "setup", "init"}

\* the value the refresh parameter of __init__ receives
constructor_refresh(ent, r) ==
  CASE ent = "FactoryEnv" -> r
    [] ent = "setup" -> setup(r)
    [] ent = "init" -> init(r)

\* ---------------------------------------------------------------- actions
\* the clock advances by one second
Tick ==
  /\ now < MaxTime
  /\ now' = now + 1
  /\ UNCHANGED <<store, mtime, tz, dirs, edits, quiet>>
  /\ UNCHANGED histvars
  /\ UNCHANGED procvars

\* somebody edits a requirements file
ModifyFile(f) ==
  /\ edits < MaxEdits
  /\ edits' = edits + 1
  /\ mtime' = [mtime EXCEPT ![f] = now]
  /\ quiet' = FALSE
  /\ UNCHANGED <<store, now, tz, dirs>>
  /\ UNCHANGED histvars
  /\ UNCHANGED procvars

\* `make set species <name>`
SetSpecies(k) ==
  /\ store.species # k
  /\ store' = [store EXCEPT !.species = k]
  /\ quiet' = FALSE
  /\ after_nuke' = IF after_nuke = "nuked" THEN "configured" ELSE after_nuke
  /\ UNCHANGED <<mtime, now, tz, dirs, edits, kicked, lost>>
  /\ UNCHANGED procvars

\* `make set anaconda_location <path>`
SetAnacondaLocation ==
  /\ store.anaconda_location = None
  /\ store' = [store EXCEPT !.anaconda_location = InstallerPath]
  /\ quiet' = FALSE
  /\ UNCHANGED <<mtime, now, tz, dirs, edits>>
  /\ UNCHANGED histvars
  /\ UNCHANGED procvars

\* a reset that clears the species and keeps the stamp (a defect used to
\* test claims)
nuke_keeping_stamp(sure, a1, a2) ==
  /\ sure \/ (a1 /\ a2)
  /\ store' = write_config([nuke_config EXCEPT
                              !.setup_stamp = store.setup_stamp])
  /\ dirs' = dirs \ {"env", "logs"}
  /\ quiet' = FALSE
  /\ after_nuke' = "nuked"
  /\ kicked' = {}
  /\ UNCHANGED <<mtime, now, tz, edits, lost>>
  /\ UNCHANGED procvars

\* nuke(sure): a1, a2 are the answers to the two questions; of the folders
\* it removes, env and logs are the ones a run creates
nuke(sure, a1, a2) ==
  /\ sure \/ (a1 /\ a2)
  /\ store' = write_config(nuke_config)
  /\ dirs' = dirs \ {"env", "logs"}
  /\ quiet' = FALSE
  /\ after_nuke' = "nuked"
  /\ kicked' = {}
  /\ UNCHANGED <<mtime, now, tz, edits, lost>>
  /\ UNCHANGED procvars

\* FactoryEnv.__init__ up to the computation of do_refresh.  fresh: the run
\* starts a new interpreter, in which the class body has just been executed.
Begin(p, ent, r, fresh) ==
  LET m == IF fresh THEN class_meta ELSE meta[p]
      cfg == read_config(store)
      ts == cfg.setup_stamp
      k == cfg.species
      rf == constructor_refresh(ent, r)
  IN
  /\ pc[p] \in {"idle", "done", "failed"}
  /\ fresh <=> pc[p] = "idle"
  /\ dirs' = scaffold(dirs)
  /\ raised' = [raised EXCEPT ![p] = None]
  /\ meta' = [meta EXCEPT ![p] = m]
  /\ loader_objs' = [loader_objs EXCEPT
                       ![p] = IF fresh THEN loader_literal ELSE @]
  /\ entry' = [entry EXCEPT ![p] = ent]
  /\ arg' = [arg EXCEPT ![p] = r]
  /\ refresh' = [refresh EXCEPT ![p] = rf]
  /\ config' = [config EXCEPT ![p] = cfg]
  /\ read0' = [read0 EXCEPT ![p] = cfg]
  /\ quiet0' = [quiet0 EXCEPT ![p] = quiet]
  /\ fresh0' = [fresh0 EXCEPT ![p] = fresh]
  /\ prev_raised' = [prev_raised EXCEPT ![p] = IF fresh THEN None
                                                ELSE raised[p]]
  /\ timestamp' = [timestamp EXCEPT ![p] = ts]
  /\ calls' = [calls EXCEPT ![p] = <<>>]
  /\ IF unknown_species(m, k)
     THEN /\ pc' = [pc EXCEPT ![p] = "exited"]
          /\ kind' = [kind EXCEPT ![p] = None]
          /\ attrs' = [attrs EXCEPT ![p] = <<>>]
          /\ do_refresh' = [do_refresh EXCEPT ![p] = FALSE]
          /\ spot0' = [spot0 EXCEPT ![p] = FALSE]
     ELSE LET a == DictGet(m, k)
              spot == IF ts # NoStamp THEN check_spotchange(a, ts, mtime, tz)
                      ELSE FALSE
              dr == do_refresh_expr(ts, spot, rf)
          IN  /\ kind' = [kind EXCEPT ![p] = k]
              /\ attrs' = [attrs EXCEPT ![p] = a]
              /\ do_refresh' = [do_refresh EXCEPT ![p] = dr]
              /\ spot0' = [spot0 EXCEPT ![p] = spot]
              /\ pc' = [pc EXCEPT ![p] =
                          IF runs_kickstart(ts) THEN "kickstart"
                          ELSE IF runs_refresh(ts, dr) THEN "refresh"
                          ELSE "register"]
  /\ UNCHANGED <<store, mtime, now, tz, edits, quiet>>
  /\ UNCHANGED histvars

\* the interpreter of a finished run ends
Exit(p) ==
  /\ pc[p] \in {"done", "failed", "exited"}
  /\ pc' = [pc EXCEPT ![p] = "idle"]
  /\ entry' = [entry EXCEPT ![p] = None]
  /\ arg' = [arg EXCEPT ![p] = FALSE]
  /\ refresh' = [refresh EXCEPT ![p] = FALSE]
  /\ config' = [config EXCEPT ![p] = nuke_config]
  /\ timestamp' = [timestamp EXCEPT ![p] = NoStamp]
  /\ kind' = [kind EXCEPT ![p] = None]
  /\ attrs' = [attrs EXCEPT ![p] = <<>>]
  /\ do_refresh' = [do_refresh EXCEPT ![p] = FALSE]
  /\ spot0' = [spot0 EXCEPT ![p] = FALSE]
  /\ raised' = [raised EXCEPT ![p] = None]
  /\ calls' = [calls EXCEPT ![p] = <<>>]
  /\ read0' = [read0 EXCEPT ![p] = nuke_config]
  /\ quiet0' = [quiet0 EXCEPT ![p] = FALSE]
  /\ fresh0' = [fresh0 EXCEPT ![p] = TRUE]
  /\ prev_raised' = [prev_raised EXCEPT ![p] = None]
  /\ loader_objs' = [loader_objs EXCEPT ![p] = loader_literal]
  /\ UNCHANGED <<meta>>
  /\ UNCHANGED envvars

\* ------------------------------------------------------------------ hooks
\* setup_virtualenv(sandbox): fails when is_terminal_command('virtualenv')
\* answers true or when the virtualenv command fails; otherwise env/ exists.
\* sandbox only selects the option on the command line.
setup_virtualenv(sandbox, missing, bash_ok, ds) ==
  IF missing THEN [ok |-> FALSE, dirs |-> ds]
  ELSE IF ~bash(bash_ok) THEN [ok |-> FALSE, dirs |-> ds]
  ELSE [ok |-> TRUE, dirs |-> ds \cup {"env"}]

\* setup_virtualenv_sandbox: self.setup_virtualenv(sandbox=True)
setup_virtualenv_sandbox(missing, bash_ok, ds) ==
  setup_virtualenv(TRUE, missing, bash_ok, ds)

\* setup_anaconda: needs 'anaconda_location' in the configuration the run
\* read and the installer on disk; then the installer, then conda create
setup_anaconda(cfg, use_python2, isfile, install_ok, create_ok, ds) ==
  IF cfg.anaconda_location = None THEN [ok |-> FALSE, dirs |-> ds]
  ELSE IF ~isfile THEN [ok |-> FALSE, dirs |-> ds]
  ELSE IF ~bash(install_ok) THEN [ok |-> FALSE, dirs |-> ds]
  ELSE IF use_python2 /\ ~bash(create_ok)
       THEN [ok |-> FALSE, dirs |-> ds \cup {"env"}]
  ELSE [ok |-> TRUE, dirs |-> ds \cup {"env"}]

\* setup_virtualenv_refresh: pip install for every file, then the upgrades
setup_virtualenv_refresh(a, objs, bash_ok) ==
  [ok |-> bash(bash_ok), attrs |-> a, objs |-> objs]

\* setup_anaconda_refresh: with use_python2 it first writes into the
\* loader_commands object and rebinds source_cmd on the instance, then runs
\* conda install and pip install for every file
setup_anaconda_refresh(a, objs, bash_ok) ==
  IF DictGet(a, "use_python2")
  THEN [ok |-> bash(bash_ok),
        attrs |-> DictSet(a, "source_cmd",
                          "source env/envs/py2/bin/activate py2"),
        objs |-> [objs EXCEPT ![DictGet(a, "loader_commands")].env_activate =
                                 "env/envs/py2/bin/activate py2"]]
  ELSE [ok |-> bash(bash_ok), attrs |-> a, objs |-> objs]

\* a hook whose failure is swallowed (a defect used to test claims)
after_hook_swallowing(ok, next) == next

\* only the failure of the kickstart is swallowed (a defect used to test
\* claims)
after_hook_kickstart_swallowing(ok, next) ==
  IF ok \/ next = "refresh" THEN next ELSE "failed"

\* a hook that fails raises, and nothing in __init__ catches: the run ends;
\* a hook that returns lets __init__ go on to its next statement
after_hook(ok, next) == IF ok THEN next ELSE "failed"

\* a registration that writes a new map holding the species, the activation
\* command and the stamp only (a defect used to test claims)
register_finished_new_map(cfg, a, objs, z, t) ==
  LET c0 == [nuke_config EXCEPT !.species = cfg.species,
                                !.activate_env = cfg.activate_env]
      c1 == IF DictHas(a, "loader_commands")
            THEN [c0 EXCEPT !.activate_env =
                              objs[DictGet(a, "loader_commands")].env_activate]
            ELSE c0
  IN  [c1 EXCEPT !.setup_stamp = strftime(z, t)]

\* register_finished: the configuration it hands to write_config
register_finished(cfg, a, objs, z, t) ==
  LET c1 == IF DictHas(a, "loader_commands")
            THEN [cfg EXCEPT !.activate_env =
                               objs[DictGet(a, "loader_commands")].env_activate]
            ELSE cfg
  IN  [c1 EXCEPT !.setup_stamp = strftime(z, t)]

\* line 84: getattr(self, self.setup_kickstart)(); b1..b3 are the outcomes of
\* the checks and commands of the hook
Kickstart(p, b1, b2, b3) ==
  LET name == DictGet(attrs[p], "setup_kickstart")
      res == CASE name = "setup_virtualenv" ->
                    setup_virtualenv(FALSE, b1, b2, dirs)
               [] name = "setup_virtualenv_sandbox" ->
                    setup_virtualenv_sandbox(b1, b2, dirs)
               [] name = "setup_anaconda" ->
                    setup_anaconda(config[p], DictGet(attrs[p], "use_python2"),
                                   b1, b2, b3, dirs)
  IN
  /\ pc[p] = "kickstart"
  /\ calls' = [calls EXCEPT ![p] = Append(@, name)]
  /\ dirs' = res.dirs
  /\ raised' = [raised EXCEPT ![p] = IF res.ok THEN None ELSE name]
  /\ pc' = [pc EXCEPT ![p] =
              after_hook(res.ok,
                         IF runs_refresh(timestamp[p], do_refresh[p])
                         THEN "refresh" ELSE "register")]
  /\ UNCHANGED <<store, mtime, now, tz, edits, quiet, after_nuke, lost>>
  /\ UNCHANGED <<meta, loader_objs, entry, arg, refresh, config, timestamp,
                 kind, attrs, do_refresh, spot0, read0, quiet0, fresh0,
                 prev_raised>>

\* line 85: getattr(self, self.setup_refresh)()
Refresh(p, bash_ok) ==
  LET name == DictGet(attrs[p], "setup_refresh")
      res == CASE name = "setup_virtualenv_refresh" ->
                    setup_virtualenv_refresh(attrs[p], loader_objs[p], bash_ok)
               [] name = "setup_anaconda_refresh" ->
                    setup_anaconda_refresh(attrs[p], loader_objs[p], bash_ok)
  IN
  /\ pc[p] = "refresh"
  /\ calls' = [calls EXCEPT ![p] = Append(@, name)]
  /\ attrs' = [attrs EXCEPT ![p] = res.attrs]
  /\ loader_objs' = [loader_objs EXCEPT ![p] = res.objs]
  /\ raised' = [raised EXCEPT ![p] = IF res.ok THEN None ELSE name]
  /\ pc' = [pc EXCEPT ![p] = after_hook(res.ok, "register")]
  /\ UNCHANGED envvars
  /\ UNCHANGED <<meta, entry, arg, refresh, config, timestamp, kind,
                 do_refresh, spot0, read0, quiet0, fresh0, prev_raised>>

\* a registration that reads the configuration again and writes that map
\* back (a defect used to test claims)
Register_rereading(p) ==
  LET cfg == register_finished(read_config(store), attrs[p], loader_objs[p],
                               tz, now)
      welcome == DictGet(attrs[p], "welcome")
  IN
  /\ pc[p] = "register"
  /\ config' = [config EXCEPT ![p] = cfg]
  /\ store' = write_config(cfg)
  /\ quiet' = TRUE
  /\ calls' = [calls EXCEPT ![p] =
                 IF welcome \in Methods
                 THEN @ \o <<"register_finished", welcome>>
                 ELSE Append(@, "register_finished")]
  /\ pc' = [pc EXCEPT ![p] = "done"]
  /\ after_nuke' = "no"
  /\ lost' = (lost \/ store # read0[p])
  /\ UNCHANGED <<mtime, now, tz, dirs, edits, kicked>>
  /\ UNCHANGED <<meta, loader_objs, entry, arg, refresh, timestamp, kind,
                 attrs, do_refresh, spot0, raised, read0, quiet0, fresh0,
                 prev_raised>>

\* lines 89-90: self.register_finished(), then the welcome method if the
\* instance has it
Register(p) ==
  LET cfg == register_finished(config[p], attrs[p], loader_objs[p], tz, now)
      welcome == DictGet(attrs[p], "welcome")
  IN
  /\ pc[p] = "register"
  /\ config' = [config EXCEPT ![p] = cfg]
  /\ store' = write_config(cfg)
  /\ quiet' = TRUE
  /\ calls' = [calls EXCEPT ![p] =
                 IF welcome \in Methods
                 THEN @ \o <<"register_finished", welcome>>
                 ELSE Append(@, "register_finished")]
  /\ pc' = [pc EXCEPT ![p] = "done"]
  /\ after_nuke' = "no"
  /\ lost' = (lost \/ store # read0[p])
  /\ UNCHANGED <<mtime, now, tz, dirs, edits, kicked>>
  /\ UNCHANGED <<meta, loader_objs, entry, arg, refresh, timestamp, kind,
                 attrs, do_refresh, spot0, raised, read0, quiet0, fresh0,
                 prev_raised>>

\* ------------------------------------------------------ the specifications
AllIdle == \A q \in Procs : pc[q] = "idle"

\* what happens around the runs: time passes, files and the configuration
\* are edited; the configuration is edited between runs only
Environment ==
  \/ Tick
  \/ \E f \in ReqFiles : ModifyFile(f)
  \/ \E k \in SpeciesChoices : AllIdle /\ SetSpecies(k)
  \/ AllIdle /\ SetAnacondaLocation
  \/ \E sure, a1, a2 \in BOOLEAN : AllIdle /\ nuke(sure, a1, a2)

\* the steps of a run once it has begun
RunSteps(p) ==
  \/ \E b1, b2, b3 \in BOOLEAN : Kickstart(p, b1, b2, b3) /\ UNCHANGED kicked
  \/ \E bash_ok \in BOOLEAN : Refresh(p, bash_ok)
  \/ Register(p)
  \/ Exit(p)

\* the same steps, recording the species whose kickstart hook returned
RunStepsRecorded(p) ==
  \/ \E b1, b2, b3 \in BOOLEAN :
       /\ Kickstart(p, b1, b2, b3)
       /\ kicked' = IF pc'[p] = "failed" THEN kicked
                                         ELSE kicked \cup {kind[p]}
  \/ \E bash_ok \in BOOLEAN : Refresh(p, bash_ok)
  \/ Register(p)
  \/ Exit(p)

\* serialized runs that construct FactoryEnv directly
Next ==
  \/ Environment
  \/ \E r, fresh \in BOOLEAN :
       NoRunActive /\ Begin(MainProc, "FactoryEnv", r, fresh)
  \/ RunSteps(MainProc)

Spec == Init /\ [][Next]_vars

\* serialized runs started through the callers setup and init
NextCallers ==
  \/ Environment
  \/ \E ent \in {"setup", "init"}, r, fresh \in BOOLEAN :
       NoRunActive /\ Begin(MainProc, ent, r, fresh)
  \/ RunSteps(MainProc)

SpecCallers == Init /\ [][NextCallers]_vars

\* serialized runs, with the record of the completed kickstarts kept
NextRecorded ==
  \/ Environment
  \/ \E r, fresh \in BOOLEAN :
       NoRunActive /\ Begin(MainProc, "FactoryEnv", r, fresh)
  \/ RunStepsRecorded(MainProc)

SpecRecorded == Init /\ [][NextRecorded]_vars

\* runs of several processes with nothing serializing them: each process is
\* a new interpreter, and the configuration may be written by somebody else
\* at any moment
NextConcurrent ==
  \/ \E k \in SpeciesChoices : SetSpecies(k)
  \/ SetAnacondaLocation
  \/ \E p \in Procs, r \in BOOLEAN : Begin(p, "FactoryEnv", r, TRUE)
  \/ \E p \in Procs : RunSteps(p)

SpecConcurrent == Init /\ [][NextConcurrent]_vars

TypeOK ==
  /\ now \in Times
  /\ tz \in Zones
  /\ after_nuke \in {"no", "nuked", "configured"}
  /\ kicked \subseteq SpeciesChoices
  /\ lost \in BOOLEAN
  /\ \A p \in Procs : prev_raised[p] \in Methods \cup {None}
  /\ \A p \in Procs : pc[p] \in Resting \cup {"kickstart", "refresh", "register"}

\* ------------------------------------------------------------- vocabulary
KickstartHooks == {"setup_virtualenv", "setup_virtualenv_sandbox",
                   "setup_anaconda"}
RefreshHooks == {"setup_virtualenv_refresh", "setup_anaconda_refresh"}
Role(name) ==
  IF name \in KickstartHooks THEN "kickstart"
  ELSE IF name \in RefreshHooks THEN "refresh"
  ELSE IF name = "register_finished" THEN "register"
  ELSE "welcome"
\* the kickstart, refresh and registration steps of a run, in order
Steps(cs) ==
  SelectSeq([i \in DOMAIN cs |-> Role(cs[i])], LAMBDA r : r # "welcome")
IsPrefix(a, b) == Len(a) <= Len(b) /\ SubSeq(b, 1, Len(a)) = a
InRun(p) == pc[p] \in {"kickstart", "refresh", "register", "done", "failed"}
\* the step is FactoryEnv.__init__ beginning in process p
BeginStep(p) ==
  /\ pc[p] \in {"idle", "done", "failed"}
  /\ pc'[p] \in {"kickstart", "refresh", "register", "exited"}
\* the step is the registration of the run of process p
RegisterStep(p) == pc[p] = "register" /\ pc'[p] = "done"
\* the files of the dependency lists of a species
ListedFiles(a) ==
  UNION {Range(a[i][2]) : i \in {n \in DOMAIN a : StartsWithReqs(a[n][1])}}
\* some file of some dependency list of the species is newer than the stamp
AnyListNewer(a, ts, mt, z) ==
  \E i \in DOMAIN a :
    /\ StartsWithReqs(a[i][1])
    /\ \E j \in DOMAIN a[i][2] : strftime(z, mt[a[i][2][j]]) > ts

\* --------------------------------------------------------------- claims
\* C1: a run that starts with no stored stamp and whose hooks all succeed
\* performs exactly kickstart, then refresh, then registration, for every
\* species and whatever the refresh flag; while it is under way or once a
\* hook has failed, what it has performed is a prefix of that sequence.
C1_FirstRunOrder ==
  \A p \in Procs :
    (InRun(p) /\ read0[p].setup_stamp = NoStamp) =>
      /\ IsPrefix(Steps(calls[p]), <<"kickstart", "refresh", "register">>)
      /\ pc[p] = "done" =>
           Steps(calls[p]) = <<"kickstart", "refresh", "register">>
      /\ pc[p] = "refresh" => Steps(calls[p]) = <<"kickstart">>
      /\ pc[p] = "register" => Steps(calls[p]) = <<"kickstart", "refresh">>

C1_Witness ==
  \E p \in Procs :
    /\ pc[p] = "done" /\ read0[p].setup_stamp = NoStamp
    /\ ~refresh[p] /\ kind[p] = "anaconda"
    /\ calls[p] = <<"setup_anaconda", "setup_anaconda_refresh",
                    "register_finished", "welcome_message">>

\* C2: a run started right after a successful registration, with no file or
\* configuration change since and without a forced refresh, invokes neither
\* kickstart nor refresh.
C2_Idempotence ==
  \A p \in Procs :
    (InRun(p) /\ quiet0[p] /\ ~refresh[p]) =>
      /\ pc[p] \notin {"kickstart", "refresh"}
      /\ \A i \in DOMAIN calls[p] :
           calls[p][i] \notin KickstartHooks \cup RefreshHooks

\* C3: setup(refresh) and init(refresh) hand their argument to the
\* constructor, so that with refresh=false a provisioned environment that is
\* not stale gets no refresh hook.
C3_RefreshPassedThrough ==
  \A p \in Procs :
    (InRun(p) /\ entry[p] \in {"setup", "init"}) =>
      /\ refresh[p] = arg[p]
      /\ (~arg[p] /\ read0[p].setup_stamp # NoStamp /\ ~spot0[p]) =>
           /\ pc[p] # "refresh"
           /\ \A i \in DOMAIN calls[p] : calls[p][i] \notin RefreshHooks

\* C4: with a stored stamp T, the staleness check answers true exactly when
\* some file of some dependency list of the species has a stamp greater than
\* T, and without a forced refresh the run refreshes exactly in that case.
C4_StaleIffAnyListNewer ==
  [][\A p \in Procs :
       (BeginStep(p) /\ pc'[p] # "exited" /\ timestamp'[p] # NoStamp) =>
         /\ spot0'[p] = AnyListNewer(attrs'[p], timestamp'[p], mtime, tz)
         /\ ~refresh'[p] =>
              ((pc'[p] = "refresh") =
                 AnyListNewer(attrs'[p], timestamp'[p], mtime, tz))]_vars

\* C5: when the refresh hook fails, the run registers nothing and the stored
\* configuration (the stamp in particular) is what it was before the run;
\* the next run decides again from that stamp: with no stamp it goes through
\* kickstart and refresh, otherwise it refreshes exactly when the staleness
\* check or the refresh flag says so.
C5_RefreshFailureIsolated ==
  /\ [](\A p \in Procs :
          (raised[p] \in RefreshHooks) =>
            /\ pc[p] = "failed"
            /\ \A i \in DOMAIN calls[p] : calls[p][i] # "register_finished"
            /\ store.setup_stamp = read0[p].setup_stamp
            /\ store = read0[p])
  /\ [][\A p \in Procs :
          (raised[p] \in RefreshHooks /\ BeginStep(p)) =>
            /\ timestamp'[p] = read0[p].setup_stamp
            /\ timestamp'[p] = NoStamp =>
                 /\ pc'[p] = "kickstart"
                 /\ runs_refresh(timestamp'[p], do_refresh'[p])
            /\ timestamp'[p] # NoStamp =>
                 ((pc'[p] = "refresh") =
                    (refresh'[p] \/
                     check_spotchange(attrs'[p], timestamp'[p], mtime, tz)))
       ]_vars

C5_Witness ==
  \E p \in Procs :
    /\ raised[p] = "setup_anaconda_refresh"
    /\ read0[p].setup_stamp # NoStamp
    /\ spot0[p] /\ ~refresh[p]

\* C6: when the kickstart hook fails, the run performs no refresh and no
\* registration, the stored stamp is still absent, and the next run invokes
\* kickstart again.
C6_KickstartFailure ==
  /\ [](\A p \in Procs :
          (raised[p] \in KickstartHooks) =>
            /\ pc[p] = "failed"
            /\ Steps(calls[p]) = <<"kickstart">>
            /\ read0[p].setup_stamp = NoStamp
            /\ store.setup_stamp = NoStamp
            /\ store = read0[p])
  /\ [][\A p \in Procs :
          (raised[p] \in KickstartHooks /\ BeginStep(p)) =>
            /\ pc'[p] = "kickstart"
            /\ calls'[p] = <<>>]_vars

C6_Witness ==
  \E p \in Procs :
    /\ raised[p] = "setup_virtualenv"
    /\ pc[p] = "failed"
    /\ calls[p] = <<"setup_virtualenv">>

\* C7: with no species, or one that is not in the table, the constructor
\* ends with the unknown-species exit: no hook is invoked, nothing is
\* written to the configuration, and the only change on disk is that the
\* two required folders exist.
C7_UnknownSpecies ==
  /\ [](\A p \in Procs :
          /\ pc[p] = "exited" =>
               /\ calls[p] = <<>>
               /\ store = read0[p]
               /\ {"logs", "connections"} \subseteq dirs
          /\ (InRun(p) \/ pc[p] = "exited") =>
               ((pc[p] = "exited") =
                  (read0[p].species \notin
                     {"virtualenv", "virtualenv_sandbox", "anaconda"})))
  /\ [][\A p \in Procs :
          (BeginStep(p) /\ pc'[p] = "exited") =>
            /\ store' = store
            /\ dirs' = dirs \cup {"logs", "connections"}
            /\ mtime' = mtime]_vars

C7_Witness ==
  \E p \in Procs :
    /\ pc[p] = "exited"
    /\ read0[p].species = "docker"
    /\ read0[p].setup_stamp # NoStamp
    /\ "env" \in dirs

\* C8: a run with refresh=true on a provisioned environment (stored stamp
\* present), its files unchanged, whose hook succeeds performs exactly one
\* refresh and then one registration, and no kickstart.
C8_ForcedRefresh ==
  \A p \in Procs :
    (InRun(p) /\ refresh[p] /\ read0[p].setup_stamp # NoStamp) =>
      /\ IsPrefix(Steps(calls[p]), <<"refresh", "register">>)
      /\ pc[p] = "done" => Steps(calls[p]) = <<"refresh", "register">>
      /\ pc[p] = "register" => Steps(calls[p]) = <<"refresh">>
      /\ pc[p] # "kickstart"

C8_Witness ==
  \E p \in Procs :
    /\ pc[p] = "done" /\ refresh[p] /\ read0[p].setup_stamp # NoStamp
    /\ quiet0[p] /\ ~spot0[p]
    /\ Steps(calls[p]) = <<"refresh", "register">>

\* C9: every registration stores a stamp that is, as an integer, greater
\* than or equal to the stamp stored before it.
C9_RegistrationMonotone ==
  [][(store.setup_stamp # NoStamp /\ store'.setup_stamp # NoStamp) =>
       store'.setup_stamp >= store.setup_stamp]_vars

\* C10: the species virtualenv_sandbox has exactly the fields of virtualenv,
\* with the same values (and the same loader_commands object) except for
\* its own kickstart; the entry of virtualenv is the one of the class-body
\* literal; a sandbox run carries these fields and invokes its own
\* kickstart and the refresh of virtualenv.
C10_SandboxComposition ==
  \A p \in Procs :
    LET base == DictGet(meta[p], "virtualenv")
        derived == DictGet(meta[p], "virtualenv_sandbox")
    IN  /\ DictKeys(derived) = DictKeys(base)
        /\ \A i \in DOMAIN base :
             IF base[i][1] = "setup_kickstart"
             THEN /\ derived[i][2] = "setup_virtualenv_sandbox"
                  /\ base[i][2] = "setup_virtualenv"
             ELSE derived[i] = base[i]
        /\ base = DictGet(meta_literal, "virtualenv")
        /\ (InRun(p) /\ kind[p] = "virtualenv_sandbox") =>
             /\ attrs[p] = derived
             /\ \A i \in DOMAIN calls[p] :
                  /\ Role(calls[p][i]) = "kickstart" =>
                       calls[p][i] = "setup_virtualenv_sandbox"
                  /\ Role(calls[p][i]) = "refresh" =>
                       calls[p][i] = DictGet(base, "setup_refresh")

C10_Witness ==
  \E p \in Procs :
    /\ kind[p] = "virtualenv_sandbox"
    /\ calls[p] = <<"setup_virtualenv_sandbox", "setup_virtualenv_refresh",
                    "register_finished", "welcome_message">>

\* C11: after a nuke the stored configuration names no species and holds no
\* stamp, so a construction that follows it ends as an unknown species with
\* no hook invoked; once a species has been set again, the stamp is still
\* absent and the run that follows goes through kickstart first, then
\* refresh, and only then reaches its registration.
C11_NukeThenRebuild ==
  /\ after_nuke = "nuked" =>
       /\ store.species = None
       /\ store.setup_stamp = NoStamp
       /\ unknown_species(class_meta, read_config(store).species)
       /\ \A p \in Procs :
            pc[p] # "idle" => (pc[p] = "exited" /\ calls[p] = <<>>)
  /\ after_nuke = "configured" =>
       /\ store.setup_stamp = NoStamp
       /\ \A p \in Procs :
            InRun(p) =>
              /\ timestamp[p] = NoStamp
              /\ IsPrefix(Steps(calls[p]), <<"kickstart", "refresh">>)
              /\ pc[p] = "refresh" => Steps(calls[p]) = <<"kickstart">>
              /\ pc[p] = "register" =>
                   Steps(calls[p]) = <<"kickstart", "refresh">>

C11_Witness ==
  /\ after_nuke = "configured"
  /\ \E p \in Procs :
       /\ pc[p] = "register"
       /\ Steps(calls[p]) = <<"kickstart", "refresh">>

\* C12: a run that finds a stamp, is not stale and is not asked to refresh
\* registers nothing and leaves the stored configuration as it read it; a
\* run registers only after a kickstart or refresh hook of its own.
C12_NoopRunWritesNothing ==
  \A p \in Procs :
    /\ (pc[p] = "done" /\ read0[p].setup_stamp # NoStamp /\ ~do_refresh[p]) =>
         /\ \A i \in DOMAIN calls[p] : calls[p][i] # "register_finished"
         /\ store = read0[p]
    /\ \A i \in DOMAIN calls[p] :
         calls[p][i] = "register_finished" =>
           \E j \in 1..(i - 1) :
             calls[p][j] \in KickstartHooks \cup RefreshHooks

\* C13 as written: after a first run whose kickstart succeeded and whose
\* refresh failed, the next run performs no kickstart.
C13_RedoOnlyIncomplete ==
  \A p \in Procs :
    (InRun(p) /\ prev_raised[p] \in RefreshHooks
       /\ read0[p].setup_stamp = NoStamp) =>
      /\ pc[p] # "kickstart"
      /\ \A i \in DOMAIN calls[p] : calls[p][i] \notin KickstartHooks

\* C13: a failed run leaves the stamp as it was, and the next run redoes
\* what that stamp calls for, completed or not: after a first run that
\* failed in either hook the next run starts with kickstart again and goes
\* on to refresh and registration; after a later run that failed in its
\* refresh the next run performs no kickstart.
C13_RedoFromStamp ==
  \A p \in Procs :
    (InRun(p) /\ prev_raised[p] # None) =>
      IF read0[p].setup_stamp = NoStamp
      THEN /\ IsPrefix(Steps(calls[p]), <<"kickstart", "refresh", "register">>)
           /\ pc[p] = "kickstart" \/ (calls[p] # <<>> /\
                                      calls[p][1] \in KickstartHooks)
           /\ pc[p] = "done" =>
                Steps(calls[p]) = <<"kickstart", "refresh", "register">>
      ELSE /\ prev_raised[p] \in RefreshHooks
           /\ pc[p] # "kickstart"
           /\ \A i \in DOMAIN calls[p] : calls[p][i] \notin KickstartHooks

C13_Witness ==
  \E p \in Procs :
    /\ prev_raised[p] \in RefreshHooks
    /\ read0[p].setup_stamp = NoStamp
    /\ pc[p] = "done"
    /\ Steps(calls[p]) = <<"kickstart", "refresh", "register">>

\* C14: the table of species, the loader_commands objects it refers to
\* included, is at every moment what the class body built, and the
\* configuration of the species a run works with stays the entry of the
\* table throughout the run.
C14_RegistryImmutable ==
  \A p \in Procs :
    /\ meta[p] = class_meta
    /\ loader_objs[p] = loader_literal
    /\ InRun(p) => attrs[p] = DictGet(class_meta, kind[p])

\* C15: every registration over an existing stamp stores a strictly greater
\* stamp.
C15_StampStrictlyIncreases ==
  [][\A p \in Procs :
       (RegisterStep(p) /\ store.setup_stamp # NoStamp) =>
         store'.setup_stamp > store.setup_stamp]_vars

\* C16: a registration writes back the map its run read at construction:
\* whatever the store holds by then, every key other than the stamp and the
\* activation command takes the value the registering run read, so a value
\* written in between by another run or another writer is overwritten.
C16_WholeMapOverwrite ==
  [][\A p \in Procs :
       RegisterStep(p) =>
         /\ DOMAIN store' = DOMAIN read0[p]
         /\ \A k \in DOMAIN store' \ {"setup_stamp", "activate_env"} :
              store'[k] = read0[p][k]]_vars

C16_Witness ==
  /\ lost
  /\ \E p, q \in Procs :
       /\ p # q
       /\ pc[p] = "done" /\ pc[q] = "done"
       /\ read0[p].setup_stamp = NoStamp /\ read0[q].setup_stamp = NoStamp
       /\ store = config[p]
       /\ config[q].species # config[p].species

\* C17: when a run with stamp T finds a listed file with a stamp greater
\* than T and its refresh succeeds, the stamp its registration stores is at
\* least the stamp of that file.
C17_RefreshCoversTrigger ==
  [][\A p \in Procs :
       (RegisterStep(p) /\ timestamp[p] # NoStamp /\ spot0[p]) =>
         \A f \in ListedFiles(attrs[p]) :
           strftime(tz, mtime[f]) > timestamp[p] =>
             store'.setup_stamp >= strftime(tz, mtime[f])]_vars

\* C18: every registration stores an activation command, and a run in a new
\* process that starts with nothing changed since the last registration
\* stores the activation command that registration stored, whatever path
\* the run takes.
C18_ActivationStable ==
  [][\A p \in Procs :
       RegisterStep(p) =>
         /\ store'.activate_env # None
         /\ (fresh0[p] /\ quiet0[p]) =>
              store'.activate_env = store.activate_env]_vars

\* C19: whenever the stored configuration holds a stamp and names a species
\* of the table, the kickstart of that species has succeeded since the last
\* nuke.
C19_StampImpliesKickstarted ==
  (store.setup_stamp # NoStamp /\ ~unknown_species(class_meta, store.species))
    => store.species \in kicked

\* C20: in serialized runs a registration changes the stamp and the
\* activation command only: the map it writes has the keys the run read, and
\* every other key keeps the value that the run read and that the store held
\* just before.
C20_RegistrationFrame ==
  [][\A p \in Procs :
       RegisterStep(p) =>
         /\ DOMAIN store' = DOMAIN read0[p]
         /\ \A k \in DOMAIN store' \ {"setup_stamp", "activate_env"} :
              store'[k] = read0[p][k] /\ store'[k] = store[k]]_vars

C20_Witness ==
  \E p \in Procs :
    /\ pc[p] = "done"
    /\ read0[p].anaconda_location = InstallerPath
    /\ store.anaconda_location = InstallerPath
    /\ store.species = read0[p].species
    /\ store.setup_stamp # read0[p].setup_stamp

====
